---- MODULE Spec2Model ----
(***************************************************************************)
(* The chunked-upload session manager of src/server.js: the /upload-chunk  *)
(* handler, its request 'data'/'end'/'error' callbacks, the write stream   *)
(* of each upload (buffering, drain, end), the per-upload expiry timer and *)
(* the hourly sweep.                                                       *)
(*                                                                         *)
(* Scales: one byte of the model stands for 1 MiB of body, one time unit   *)
(* for the upload timeout (24 hours).  The streams are opened with         *)
(* autoClose: false, so end() stops a stream accepting writes and lets it  *)
(* write out what it has buffered, and the descriptor stays open: "ended"  *)
(* is what "closed" means below.                                           *)
(***************************************************************************)
EXTENDS Integers, Sequences, FiniteSets, Bags, TLC

\* ---------------------------------------------------------------- bounds
NumIds == 2
MaxChunk == 1
MaxTotal == 2
MaxBody == 2
MaxInFlight == 2
MaxInst == 2
\* one unit of work for each request taken in, one more when it opens a session
MaxWork == 4
\* the chunk files of a staging directory are 1..MaxFile bytes long
MaxFile == 3

\* ------------------------------------------------------ program constants
\* server.js:18, in MiB
HIGH_WATER_MARK == 2
\* server.js:26, in days
UPLOAD_TIMEOUT == 1

FileIds == 1..NumIds
\* 0 is the empty x-file-name header
NoName == 0
\* NameOf with one destination for every identifier.
NameOfShared(fileId) == 1

\* The destination of an upload: every identifier names a file of its own.
NameOf(fileId) == fileId
FileNames == {NameOf(id) : id \in FileIds}
ChunkIdx == 0..MaxChunk
Totals == 0..MaxTotal
\* The bytes of chunk i of a file are i+1: a body says which chunk it is, and
\* bodies differ in length (0..MaxBody).
ByteOf(chunkIndex) == chunkIndex + 1
\* a byte of a file that no write has set (a hole left by a write past the end)
Hole == 0
\* uploadTracker.get(id) === undefined
None == 0
NoFile == <<-1>>

VARIABLES
  uploadTracker,  \* Map fileId -> session object (its index in sess), or None
  sess,           \* the session objects ever created, in creation order
  receiving,      \* the requests whose body is arriving (a bag of records)
  microq,         \* continuations resumed by 'drain', not yet run (promise jobs)
  files,          \* the destination files on disk, by path
  tempDirs,       \* the per-identifier staging directories that exist
  crashed,        \* the process died of an unhandled 'error' event
  resp,           \* the response the last step sent ("none": it sent none)
  hist,           \* history of each session object (not program state)
  work,           \* the requests taken in and sessions opened so far (bounds the model)
  chunkStore,     \* the length of chunk-i in the staging directory of each identifier
  job,            \* the /combine-chunks request being processed, or NoJob
  cres            \* the responses sent to the last /combine-chunks request

vars == <<uploadTracker, sess, receiving, microq, files, tempDirs, crashed, resp, hist, work,
          chunkStore, job, cres>>

\* the state of the /upload-chunk side that /combine-chunks leaves alone
uploadVars == <<uploadTracker, sess, receiving, microq, resp, hist, work>>
\* the state that only /combine-chunks uses
asmVars == <<chunkStore, job, cres>>

\* fs.existsSync(chunkPath) is false
Absent == 0
NoJob == [state |-> "none"]

Insts == 1..Len(sess)

\* ------------------------------------------------------------- helpers
Max(a, b) == IF a >= b THEN a ELSE b

\* Overlay with every write at the start of the file (the position is not
\* advanced).
OverlayAtStart(f, pos, data) ==
  [i \in 1..Max(Len(f), Len(data)) |-> IF i <= Len(data) THEN data[i] ELSE f[i]]

\* The bytes of a file after writing data at offset pos (fs.write at the
\* descriptor's own position; the stream is opened with flags 'w', not 'a').
Overlay(f, pos, data) ==
  [i \in 1..Max(Len(f), pos + Len(data)) |->
     IF i > pos /\ i <= pos + Len(data) THEN data[i - pos]
     ELSE IF i <= Len(f) THEN f[i]
     ELSE Hole]

RECURSIVE Flatten(_)
Flatten(ss) == IF ss = <<>> THEN <<>> ELSE Head(ss) \o Flatten(Tail(ss))

RECURSIVE SumLen(_)
SumLen(ss) == IF ss = <<>> THEN 0 ELSE Len(Head(ss)) + SumLen(Tail(ss))

RECURSIVE SumWaiters(_, _)
SumWaiters(S, n) == IF n = 0 THEN 0 ELSE Len(S[n].waiters) + SumWaiters(S, n - 1)

\* A request in flight between server.js:233 and its 'end': the handler's
\* chunkIndex and upload (server.js:181).  The handler's fileId is
\* sess[upload].fileId.
Request(chunkIndex, upload) == [chunkIndex |-> chunkIndex, upload |-> upload]

\* The body of a request for chunkIndex, n bytes long, as the client sent it.
Body(chunkIndex, n) == [i \in 1..n |-> ByteOf(chunkIndex)]

\* DataBuffer keeping only the piece given last (dataBuffer = chunk).
DataBufferLast(chunkIndex, n) == IF n = 0 THEN <<>> ELSE <<ByteOf(chunkIndex)>>

\* server.js:234-239: dataBuffer when 'end' is emitted, the concatenation of
\* the pieces the 'data' callback was given, here the n bytes of the body one
\* by one.  The callback touches nothing but this buffer, which only the 'end'
\* callback reads, so the pieces are taken to arrive just before 'end'.
RECURSIVE DataBuffer(_, _)
DataBuffer(chunkIndex, n) ==
  IF n = 0 THEN <<>> ELSE DataBuffer(chunkIndex, n - 1) \o <<ByteOf(chunkIndex)>>

One(q) == SetToBag({q})

\* Requests not yet answered: receiving, awaiting 'drain', or resumed.
InFlight == BagCardinality(receiving) + SumWaiters(sess, Len(sess)) + Len(microq)

\* ------------------------------------------------------------- Init
Init ==
  /\ uploadTracker = [id \in FileIds |-> None]
  /\ sess = <<>>
  /\ receiving = EmptyBag
  /\ microq = <<>>
  /\ files = [p \in FileNames |-> NoFile]
  /\ tempDirs = {}
  /\ crashed = FALSE
  /\ resp = "none"
  /\ hist = <<>>
  /\ work = 0
  /\ chunkStore = [id \in FileIds |-> [i \in ChunkIdx |-> Absent]]
  /\ job = NoJob
  /\ cres = <<>>

\* --------------------------------------------------- the session object
\* server.js:156-175: the object stored by uploadTracker.set.  fileId is the
\* variable the timer's closure captures; ending, buf, needDrain, pos and
\* waiters are the write stream (writeStream) and the requests (their
\* chunkIndex) listening for its 'drain'.  age is Date.now() - createdAt, the
\* only way the code reads createdAt.
NewSession(fileId, fileName, totalChunks) ==
  [fileId |-> fileId, finalPath |-> fileName, receivedChunks |-> {},
   totalChunks |-> totalChunks, age |-> 0, timeout |-> "armed",
   ending |-> FALSE, buf |-> <<>>, needDrain |-> FALSE, pos |-> 0,
   waiters |-> <<>>]

\* What happened to a session object: the (chunkIndex, body) pairs of the
\* requests that wrote to its stream, in the order of their writes, the teardowns run on it, what took it out of the
\* registry, and whether another session object opened or wrote its file.
NewHist == [wlog |-> <<>>, tdown |-> {}, unregBy |-> "none", foreign |-> FALSE]

\* Another session object opens or writes the file at path.
Disturb(H, S, s, path) ==
  [t \in 1..Len(H) |->
     IF t # s /\ S[t].finalPath = path THEN [H[t] EXCEPT !.foreign = TRUE] ELSE H[t]]

Unregister(H, s, cause) ==
  IF s = None THEN H ELSE [H EXCEPT ![s].unregBy = cause]

\* IsFirstChunk with a session opened for any chunk index (what the
\* unreachable lines 183-214 would do).
IsAnyChunk(chunkIndex) == chunkIndex >= 0

\* server.js:146
IsFirstChunk(chunkIndex) == chunkIndex = 0

\* server.js:225
AlreadyHas(receivedChunks, chunkIndex) == chunkIndex \in receivedChunks

\* CanContinue with a stream that never reports saturation.
CanContinueAlways(bufferedAfter) == TRUE

\* server.js:245, Writable.write's return value: the buffered length after
\* queueing the chunk is below the high water mark
CanContinue(bufferedAfter) == bufferedAfter < HIGH_WATER_MARK

\* server.js:260
IsComplete(receivedChunks, totalChunks) == Cardinality(receivedChunks) = totalChunks

\* clearTimeout: cancels a pending timer, no effect on one that fired
ClearTimeout(t) == IF t = "armed" THEN "cleared" ELSE t

\* server.js:567
IsStale(s) == sess[s].age > UPLOAD_TIMEOUT

\* the timer armed at server.js:167 is due
TimerDue(s) == sess[s].age >= UPLOAD_TIMEOUT

Registered(s) == \E id \in FileIds : uploadTracker[id] = s

\* A session object nothing refers to any more: not in the Map, no request in
\* flight that captured it, its stream idle.  (Its timer's closure holds the
\* identifier, not the object.)  The runtime reclaims it; Collected(s) is what
\* is left: the timer while it is pending, and whether end() was called.
Collected(s) ==
  LET armed == sess[s].timeout = "armed" IN
  [fileId |-> IF armed THEN sess[s].fileId ELSE None, finalPath |-> 0,
   receivedChunks |-> {}, totalChunks |-> 0,
   age |-> IF armed THEN sess[s].age ELSE 0,
   timeout |-> IF armed THEN "armed" ELSE "cleared",
   ending |-> sess[s].ending, buf |-> <<>>, needDrain |-> FALSE, pos |-> 0,
   waiters |-> <<>>]

CollectedHist == [wlog |-> <<>>, tdown |-> {}, unregBy |-> "collected", foreign |-> FALSE]

IsCollected(s) == hist[s] = CollectedHist

Unreachable(s) ==
  /\ sess[s] # Collected(s) \/ hist[s] # CollectedHist
  /\ ~Registered(s)
  /\ sess[s].buf = <<>>
  /\ sess[s].waiters = <<>>
  /\ \A q \in BagToSet(receiving) : q.upload # s
  /\ \A i \in 1..Len(microq) : microq[i][1] # s

\* No callback starts while promise jobs are pending or after the process died.
\* (Unreachable objects are reclaimed at once: they can affect nothing.)
Ready == ~crashed /\ microq = <<>> /\ \A s \in Insts : ~Unreachable(s)

Cost(chunkIndex) == IF IsFirstChunk(chunkIndex) THEN 2 ELSE 1

\* ------------------------------------------------- POST /upload-chunk
\* server.js:109-231, the synchronous part of the handler.
UploadChunk(fileName, fileId, chunkIndex, totalChunks) ==
  /\ UNCHANGED asmVars
  /\ Ready
  /\ UNCHANGED <<microq, crashed>>
  /\ IF fileName = NoName
     THEN \* server.js:124-128
          /\ resp' = "MissingFileName"
          /\ UNCHANGED <<uploadTracker, sess, receiving, files, tempDirs, hist, work>>
     ELSE
       LET create == IsFirstChunk(chunkIndex)
           n == Len(sess) + 1
           old == uploadTracker[fileId]
           \* server.js:156-175
           S1 == IF create THEN Append(sess, NewSession(fileId, fileName, totalChunks)) ELSE sess
           T1 == IF create THEN [uploadTracker EXCEPT ![fileId] = n] ELSE uploadTracker
           \* createWriteStream with flags 'w' creates or truncates the file
           F1 == IF create THEN [files EXCEPT ![fileName] = <<>>] ELSE files
           H1 == IF create
                 THEN Append(Disturb(Unregister(hist, old, "replaced"), sess, n, fileName),
                             NewHist)
                 ELSE hist
           \* server.js:181
           upload == T1[fileId]
       IN /\ create => Len(sess) < MaxInst
          /\ tempDirs' = tempDirs \cup {fileId}      \* server.js:137-140
          /\ uploadTracker' = T1
          /\ sess' = S1
          /\ files' = F1
          /\ hist' = H1
          /\ IF upload = None
             THEN \* server.js:216-220
                  /\ resp' = "SessionNotFound"
                  /\ UNCHANGED <<receiving, work>>
             ELSE IF AlreadyHas(S1[upload].receivedChunks, chunkIndex)
             THEN \* server.js:225-231
                  /\ resp' = "AlreadyReceived"
                  /\ UNCHANGED <<receiving, work>>
             ELSE \* server.js:233-310: the callbacks are registered
                  /\ InFlight < MaxInFlight
                  /\ work + Cost(chunkIndex) <= MaxWork
                  /\ work' = work + Cost(chunkIndex)
                  /\ resp' = "none"
                  /\ receiving' = receiving (+) One(Request(chunkIndex, upload))

\* server.js:303-310
ReqError(q) ==
  /\ UNCHANGED asmVars
  /\ Ready
  /\ BagIn(q, receiving)
  /\ receiving' = receiving (-) One(q)
  /\ resp' = "UploadError"
  /\ UNCHANGED <<uploadTracker, sess, microq, files, tempDirs, crashed, hist, work>>

\* server.js:253-294: what follows the write (and the drain, if awaited) of the
\* request that captured session object s, for its chunkIndex.
Continuation(s, chunkIndex, S, H) ==
  LET id == S[s].fileId
      rc == S[s].receivedChunks \cup {chunkIndex}
      S1 == [S EXCEPT ![s].receivedChunks = rc]
      cur == uploadTracker[id]
  IN IF IsComplete(rc, S[s].totalChunks)
     THEN /\ sess' = [S1 EXCEPT ![s].ending = TRUE, ![s].timeout = ClearTimeout(@)]
          /\ uploadTracker' = [uploadTracker EXCEPT ![id] = None]
          /\ tempDirs' = tempDirs \ {id}
          /\ hist' = [Unregister(H, cur, IF cur = s THEN "completion" ELSE "foreign")
                        EXCEPT ![s].tdown = @ \cup {"completion"}]
          /\ resp' = "Complete"
     ELSE /\ sess' = S1
          /\ hist' = H
          /\ resp' = "Received"
          /\ UNCHANGED <<uploadTracker, tempDirs>>

\* server.js:242-257: the 'end' callback when the stream accepts the write.
ReqEnd(q, n) ==
  /\ UNCHANGED asmVars
  /\ Ready
  /\ BagIn(q, receiving)
  /\ receiving' = receiving (-) One(q)
  /\ LET s == q.upload
         dataBuffer == DataBuffer(q.chunkIndex, n)
         S1 == [sess EXCEPT ![s].buf = Append(@, dataBuffer)]
         H1 == [hist EXCEPT ![s].wlog = Append(@, <<q.chunkIndex, Body(q.chunkIndex, n)>>)]
     IN /\ ~sess[s].ending
        /\ IF CanContinue(SumLen(S1[s].buf))
           THEN Continuation(s, q.chunkIndex, S1, H1)
           ELSE \* server.js:248-251
                /\ sess' = [S1 EXCEPT ![s].needDrain = TRUE,
                                      ![s].waiters = Append(@, q.chunkIndex)]
                /\ hist' = H1
                /\ resp' = "none"
                /\ UNCHANGED <<uploadTracker, tempDirs>>
  /\ UNCHANGED <<microq, files, crashed, work>>

\* server.js:245 on a stream that end() was called on: write after end.  The
\* stream has no 'error' listener.  A runtime that emits 'error' inside
\* write() throws there, into the catch of server.js:295-299 ...
ReqEndThrow(q) ==
  /\ UNCHANGED asmVars
  /\ Ready
  /\ BagIn(q, receiving)
  /\ sess[q.upload].ending
  /\ receiving' = receiving (-) One(q)
  /\ resp' = "ServerError"
  /\ UNCHANGED <<uploadTracker, sess, microq, files, tempDirs, crashed, hist, work>>

\* ... and one that emits it on the next tick kills the process.
ReqEndCrash(q) ==
  /\ UNCHANGED asmVars
  /\ Ready
  /\ BagIn(q, receiving)
  /\ sess[q.upload].ending
  /\ crashed' = TRUE
  /\ resp' = "none"
  /\ UNCHANGED <<uploadTracker, sess, receiving, microq, files, tempDirs, hist, work>>

\* The stream writes its oldest buffered chunk to the file; when that empties
\* the buffer of a stream that needs a drain and is not ending, 'drain' is
\* emitted and every once('drain') listener resolves its promise
\* (server.js:250).
Flush(s) ==
  /\ UNCHANGED asmVars
  /\ Ready
  /\ s \in Insts
  /\ sess[s].buf # <<>>
  /\ LET data == Head(sess[s].buf)
         rest == Tail(sess[s].buf)
         drain == rest = <<>> /\ sess[s].needDrain /\ ~sess[s].ending
     IN /\ files' = [files EXCEPT ![sess[s].finalPath] = Overlay(@, sess[s].pos, data)]
        /\ sess' = [sess EXCEPT ![s].buf = rest,
                                ![s].pos = @ + Len(data),
                                ![s].needDrain = IF drain THEN FALSE ELSE @,
                                ![s].waiters = IF drain THEN <<>> ELSE @]
        /\ microq' = IF drain
                     THEN [i \in 1..Len(sess[s].waiters) |-> <<s, sess[s].waiters[i]>>]
                     ELSE microq
        /\ hist' = Disturb(hist, sess, s, sess[s].finalPath)
  /\ resp' = "none"
  /\ UNCHANGED <<uploadTracker, receiving, tempDirs, crashed, work>>

\* A write of the stream to the file fails (disk full, I/O error): the stream
\* emits 'error'.  It has no 'error' listener (server.js:159-163) and the
\* process no 'uncaughtException' handler: the process dies.
FlushFail(s) ==
  /\ UNCHANGED asmVars
  /\ Ready
  /\ s \in Insts
  /\ sess[s].buf # <<>>
  /\ crashed' = TRUE
  /\ resp' = "none"
  /\ UNCHANGED <<uploadTracker, sess, receiving, microq, files, tempDirs, hist, work>>

\* server.js:250-257: the request at the head of the promise jobs resumes
\* after its awaited 'drain'.
Resume ==
  /\ UNCHANGED asmVars
  /\ ~crashed
  /\ microq # <<>>
  /\ microq' = Tail(microq)
  /\ Continuation(Head(microq)[1], Head(microq)[2], sess, hist)
  /\ UNCHANGED <<receiving, files, crashed, work>>

\* server.js:167-174: the timer of session object s fires.  Its closure looks
\* the identifier up again.
Timeout(s) ==
  /\ UNCHANGED asmVars
  /\ Ready
  /\ s \in Insts
  /\ sess[s].timeout = "armed"
  /\ TimerDue(s)
  /\ LET id == sess[s].fileId
         upload == uploadTracker[id]
         S1 == [sess EXCEPT ![s].timeout = "fired"]
     IN /\ sess' = IF upload # None THEN [S1 EXCEPT ![upload].ending = TRUE] ELSE S1
        /\ uploadTracker' = [uploadTracker EXCEPT ![id] = None]
        /\ hist' = IF upload # None
                   THEN [Unregister(hist, upload, IF upload = s THEN "expiry" ELSE "foreign")
                           EXCEPT ![upload].tdown = @ \cup {"expiry"}]
                   ELSE hist
  /\ resp' = "none"
  /\ UNCHANGED <<receiving, microq, files, tempDirs, crashed, work>>

\* server.js:563-576
Sweep ==
  /\ UNCHANGED asmVars
  /\ Ready
  /\ LET stale == {id \in FileIds : uploadTracker[id] # None /\ IsStale(uploadTracker[id])}
         gone == {uploadTracker[id] : id \in stale}
     IN /\ sess' = [s \in Insts |->
                      IF s \in gone
                      THEN [sess[s] EXCEPT !.ending = TRUE, !.timeout = ClearTimeout(@)]
                      ELSE sess[s]]
        /\ uploadTracker' = [id \in FileIds |-> IF id \in stale THEN None ELSE uploadTracker[id]]
        /\ hist' = [s \in Insts |->
                      IF s \in gone
                      THEN [hist[s] EXCEPT !.unregBy = "expiry", !.tdown = @ \cup {"expiry"}]
                      ELSE hist[s]]
  /\ resp' = "none"
  /\ UNCHANGED <<receiving, microq, files, tempDirs, crashed, work>>

\* Time passes: the age of every session object that the sweep or a pending
\* timer can still read grows, up to the first value past the timeout.
Clocked(s) == Registered(s) \/ sess[s].timeout = "armed"

Tick ==
  /\ UNCHANGED asmVars
  /\ Ready
  /\ \E s \in Insts : Clocked(s) /\ sess[s].age <= UPLOAD_TIMEOUT
  /\ sess' = [s \in Insts |->
                IF Clocked(s) /\ sess[s].age <= UPLOAD_TIMEOUT
                THEN [sess[s] EXCEPT !.age = @ + 1]
                ELSE sess[s]]
  /\ resp' = "none"
  /\ UNCHANGED <<uploadTracker, receiving, microq, files, tempDirs, crashed, hist, work>>

\* The runtime reclaims an unreachable session object.
Collect(s) ==
  /\ UNCHANGED asmVars
  /\ ~crashed
  /\ s \in Insts
  /\ Unreachable(s)
  /\ sess' = [sess EXCEPT ![s] = Collected(s)]
  /\ hist' = [hist EXCEPT ![s] = CollectedHist]
  /\ resp' = "none"
  /\ UNCHANGED <<uploadTracker, receiving, microq, files, tempDirs, crashed, work>>

Next ==
  \/ \E fileId \in FileIds, chunkIndex \in ChunkIdx, totalChunks \in Totals :
       UploadChunk(NameOf(fileId), fileId, chunkIndex, totalChunks)
  \* a request without X-File-Name: the other headers are not looked at
  \/ \E fileId \in FileIds : UploadChunk(NoName, fileId, 0, 1)
  \/ \E q \in BagToSet(receiving) : ReqError(q)
  \/ \E q \in BagToSet(receiving), n \in 0..MaxBody : ReqEnd(q, n)
  \/ \E q \in BagToSet(receiving) : ReqEndThrow(q)
  \/ \E q \in BagToSet(receiving) : ReqEndCrash(q)
  \/ \E s \in 1..MaxInst : Flush(s)
  \/ \E s \in 1..MaxInst : FlushFail(s)
  \/ Resume
  \/ \E s \in 1..MaxInst : Timeout(s)
  \/ \E s \in 1..MaxInst : Collect(s)
  \/ Sweep
  \/ Tick

Spec == Init /\ [][Next]_vars

\* ------------------------------------------------- POST /combine-chunks
\* A response of the /combine-chunks handler; index is the chunk a
\* missing-chunk error names (0 in the other responses).
Res(kind, index) == <<kind, index>>

Min(a, b) == IF a <= b THEN a ELSE b

Exists(fileId, i) == i \in ChunkIdx /\ chunkStore[fileId][i] # Absent

\* the content of chunk-i, len bytes long
ChunkFile(i, len) == Body(i, len)

\* FirstMissing with the loop starting at the second chunk.
FirstMissingFromOne(fileId, totalChunks) ==
  LET missing == {i \in 1..(totalChunks - 1) : ~Exists(fileId, i)}
  IN IF missing = {} THEN totalChunks
     ELSE CHOOSE i \in missing : \A j \in missing : i <= j

\* server.js:433-442: the first i in [0, totalChunks) for which chunk-i does
\* not exist; totalChunks when every one exists.
FirstMissing(fileId, totalChunks) ==
  LET missing == {i \in 0..(totalChunks - 1) : ~Exists(fileId, i)}
  IN IF missing = {} THEN totalChunks
     ELSE CHOOSE i \in missing : \A j \in missing : i <= j

\* AllProcessed one chunk early.
AllProcessedEarly(currentChunk, totalChunks) == currentChunk >= totalChunks - 1

\* server.js:606
AllProcessed(currentChunk, totalChunks) == currentChunk >= totalChunks

\* server.js:451-467, 601-604: finalPath, outputStream (buf, pos, needDrain,
\* ending, destroyed), the promise of combineChunks (state), currentChunk and
\* the read stream of the current chunk (reading, offset: the bytes of it
\* piped so far).  failure and lens are history: the first failure, and the
\* chunk files as they were when the request arrived.
NewJob(fileId, fileName, totalChunks) ==
  [state |-> "pending", fileId |-> fileId, finalPath |-> fileName,
   totalChunks |-> totalChunks, currentChunk |-> 0, offset |-> 0,
   reading |-> TRUE, buf |-> <<>>, pos |-> 0, needDrain |-> FALSE,
   ending |-> FALSE, destroyed |-> FALSE, failure |-> "none",
   lens |-> chunkStore[fileId]]

\* No assembly is going on: one /combine-chunks request is processed at a
\* time, and job holds the request that was begun last.
Idle == IF job = NoJob THEN TRUE ELSE ~job.reading /\ job.buf = <<>>

\* server.js:407-467 and the first call of processNextChunk (server.js:605-631)
CombineChunks(fileName, fileId, totalChunks) ==
  /\ ~crashed
  /\ Idle
  /\ UNCHANGED uploadVars
  /\ UNCHANGED <<tempDirs, crashed, chunkStore>>
  /\ IF fileName = NoName \/ totalChunks = 0
     THEN \* server.js:414-420
          /\ cres' = <<Res("MissingInfo", 0)>>
          /\ job' = NoJob
          /\ UNCHANGED files
     ELSE IF fileId \notin tempDirs
     THEN \* server.js:424-430
          /\ cres' = <<Res("SessionNotFound", 0)>>
          /\ job' = NoJob
          /\ UNCHANGED files
     ELSE IF FirstMissing(fileId, totalChunks) < totalChunks
     THEN \* server.js:433-442
          /\ cres' = <<Res("MissingChunk", FirstMissing(fileId, totalChunks))>>
          /\ job' = NoJob
          /\ UNCHANGED files
     ELSE \* server.js:444-467: createWriteStream with flags 'w'
          /\ files' = [files EXCEPT ![fileName] = <<>>]
          /\ job' = NewJob(fileId, fileName, totalChunks)
          /\ cres' = <<>>

\* server.js:631: the read stream gives its next block (at most its
\* highWaterMark) to pipe, which writes it to outputStream and pauses the read
\* stream when write returns false.
ReadBlock ==
  /\ ~crashed
  /\ job # NoJob
  /\ job.reading
  /\ ~job.needDrain
  /\ job.offset < chunkStore[job.fileId][job.currentChunk]
  /\ LET len == chunkStore[job.fileId][job.currentChunk]
         n == Min(HIGH_WATER_MARK, len - job.offset)
         buf1 == Append(job.buf, ChunkFile(job.currentChunk, n))
     IN job' = [job EXCEPT !.offset = @ + n,
                           !.buf = buf1,
                           !.needDrain = ~CanContinue(SumLen(buf1))]
  /\ UNCHANGED uploadVars
  /\ UNCHANGED <<files, tempDirs, crashed, chunkStore, cres>>

\* server.js:625-628, then 606-611 and 468-483: 'end' of the read stream;
\* after the last chunk outputStream.end(), resolve, and the then-callback.
ReadEnd ==
  /\ ~crashed
  /\ job # NoJob
  /\ job.reading
  /\ ~job.needDrain
  /\ job.offset = chunkStore[job.fileId][job.currentChunk]
  /\ LET next == job.currentChunk + 1 IN
     IF AllProcessed(next, job.totalChunks)
     THEN /\ job' = [job EXCEPT !.currentChunk = next, !.offset = 0,
                                !.reading = FALSE, !.ending = TRUE,
                                !.state = "resolved"]
          /\ tempDirs' = tempDirs \ {job.fileId}
          /\ chunkStore' = [chunkStore EXCEPT ![job.fileId] = [i \in ChunkIdx |-> Absent]]
          /\ cres' = Append(cres, Res("Success", 0))
     ELSE /\ job' = [job EXCEPT !.currentChunk = next, !.offset = 0]
          /\ UNCHANGED <<tempDirs, chunkStore, cres>>
  /\ UNCHANGED uploadVars
  /\ UNCHANGED <<files, crashed>>

\* server.js:619-622, then 484-491: the read stream fails; reject and the
\* catch-callback.
ReadError ==
  /\ ~crashed
  /\ job # NoJob
  /\ job.reading
  /\ job' = [job EXCEPT !.reading = FALSE, !.state = "rejected", !.failure = "read"]
  /\ cres' = Append(cres, Res("FailedCombine", 0))
  /\ UNCHANGED uploadVars
  /\ UNCHANGED <<files, tempDirs, crashed, chunkStore>>

\* outputStream writes its oldest buffered block to the file; 'drain' resumes
\* the read stream.
OutFlush ==
  /\ ~crashed
  /\ job # NoJob
  /\ job.buf # <<>>
  /\ LET data == Head(job.buf)
         rest == Tail(job.buf)
         drain == rest = <<>> /\ job.needDrain /\ ~job.ending
     IN /\ files' = [files EXCEPT ![job.finalPath] = Overlay(@, job.pos, data)]
        /\ job' = [job EXCEPT !.buf = rest, !.pos = @ + Len(data),
                              !.needDrain = IF drain THEN FALSE ELSE @]
  /\ UNCHANGED uploadVars
  /\ UNCHANGED <<tempDirs, crashed, chunkStore, cres>>

\* server.js:457-464: a write of outputStream to the file fails.  The stream
\* is destroyed, pipe stops feeding it, and the 'error' listener answers 500;
\* when a response has been sent already, writeHead throws in the listener
\* (headers already sent) and the exception, uncaught, kills the process.
OutError ==
  /\ ~crashed
  /\ job # NoJob
  /\ job.buf # <<>>
  /\ job' = [job EXCEPT !.destroyed = TRUE, !.buf = <<>>, !.reading = FALSE,
                        !.failure = IF @ = "none" THEN "write" ELSE @]
  /\ IF cres = <<>>
     THEN cres' = <<Res("FailedWrite", 0)>> /\ crashed' = crashed
     ELSE cres' = cres /\ crashed' = TRUE
  /\ UNCHANGED uploadVars
  /\ UNCHANGED <<files, tempDirs, chunkStore>>

\* The staging directories and chunk files are put there by other programs:
\* no code of the server writes a chunk file.
InitCombine ==
  /\ uploadTracker = [id \in FileIds |-> None]
  /\ sess = <<>>
  /\ receiving = EmptyBag
  /\ microq = <<>>
  /\ files = [p \in FileNames |-> NoFile]
  /\ tempDirs \in SUBSET FileIds
  /\ crashed = FALSE
  /\ resp = "none"
  /\ hist = <<>>
  /\ work = 0
  /\ chunkStore \in [FileIds -> [ChunkIdx -> 0..MaxFile]]
  /\ \A id \in FileIds \ tempDirs : \A i \in ChunkIdx : chunkStore[id][i] = Absent
  /\ job = NoJob
  /\ cres = <<>>

NextCombine ==
  \/ \E fileId \in FileIds, totalChunks \in Totals :
       CombineChunks(NameOf(fileId), fileId, totalChunks)
  \/ \E fileId \in FileIds : CombineChunks(NoName, fileId, 1)
  \/ ReadBlock
  \/ ReadEnd
  \/ ReadError
  \/ OutFlush
  \/ OutError

SpecCombine == InitCombine /\ [][NextCombine]_vars

\* ======================================================== the properties
\* A session object is live while its stream is open or its timer is armed.
Live(s) == ~sess[s].ending \/ sess[s].timeout = "armed"

\* the indices written to the stream of s, in order
Indices(s) == [i \in 1..Len(hist[s].wlog) |-> hist[s].wlog[i][1]]
\* the bodies written to the stream of s, in order
Bodies(s) == [i \in 1..Len(hist[s].wlog) |-> hist[s].wlog[i][2]]

\* C1: every upload identifier has at most one live session object (one with
\* an open stream or an armed timer); a chunk-0 request for a registered
\* identifier creates no second one.
AtMostOneLiveSession ==
  \A id \in FileIds :
    Cardinality({s \in Insts : sess[s].fileId = id /\ Live(s)}) <= 1

\* C2: a chunk request (of any index, 0 included) for a registered identifier
\* resolves to the session object that was registered, and leaves it as it was.
ResolveKeepsSession ==
  [][\A fileId \in FileIds, chunkIndex \in ChunkIdx, totalChunks \in Totals :
       (/\ uploadTracker[fileId] # None
        /\ UploadChunk(NameOf(fileId), fileId, chunkIndex, totalChunks))
       => /\ uploadTracker'[fileId] = uploadTracker[fileId]
          /\ sess'[uploadTracker[fileId]] = sess[uploadTracker[fileId]]]_vars

\* C3: a chunk request with an index other than 0 for an identifier that is
\* not registered is answered "session not found"; the registry and the
\* session objects are unchanged (no session, no stream, no timer), no file is
\* created or written, and no callback is registered for the body.
UnknownSessionRejected ==
  [][\A fileId \in FileIds, chunkIndex \in ChunkIdx, totalChunks \in Totals :
       (/\ uploadTracker[fileId] = None
        /\ chunkIndex # 0
        /\ UploadChunk(NameOf(fileId), fileId, chunkIndex, totalChunks))
       => /\ resp' = "SessionNotFound"
          /\ UNCHANGED <<uploadTracker, sess, files, receiving>>]_vars

\* C3's case: the rejection, while another identifier is registered.
UnknownSessionRejectedSeen ==
  /\ resp = "SessionNotFound"
  /\ \E id \in FileIds : uploadTracker[id] # None

\* C4: a request for an index that the registered session has already
\* received (0 included) is answered "already received" and changes neither
\* the session, nor the registry, nor any file.
RetryIsIdempotent ==
  [][\A fileId \in FileIds, chunkIndex \in ChunkIdx, totalChunks \in Totals :
       (/\ uploadTracker[fileId] # None
        /\ chunkIndex \in sess[uploadTracker[fileId]].receivedChunks
        /\ UploadChunk(NameOf(fileId), fileId, chunkIndex, totalChunks))
       => /\ resp' = "AlreadyReceived"
          /\ UNCHANGED <<uploadTracker, sess, files, receiving>>]_vars

\* C5: under every interleaving, the bytes of a chunk index are written to
\* the stream of a session at most once: of two writes of the same index, one
\* at least wrote no byte.
EachIndexWrittenOnce ==
  \A s \in Insts :
    \A i, j \in 1..Len(hist[s].wlog) :
      (i # j /\ Indices(s)[i] = Indices(s)[j])
      => (Bodies(s)[i] = <<>> \/ Bodies(s)[j] = <<>>)

NoAcceptAfterFinalize ==
  [][\A s \in Insts :
       "completion" \in hist[s].tdown
       => /\ sess'[s].receivedChunks \subseteq sess[s].receivedChunks
          /\ Len(hist'[s].wlog) <= Len(hist[s].wlog)]_vars

\* C8: receivedChunks never has more elements than totalChunks, whatever
\* total the client declared (0 included).
ReceivedWithinTotal ==
  \A s \in Insts : Cardinality(sess[s].receivedChunks) <= sess[s].totalChunks

\* C9: a session object that has left the registry was removed by its own
\* completion or by its own expiry, and at most one of the two teardowns has
\* run on any session object.
RemovedOnceByOnePath ==
  \A s \in Insts :
    /\ Cardinality(hist[s].tdown) <= 1
    /\ (~Registered(s) /\ ~IsCollected(s)) => hist[s].unregBy \in {"completion", "expiry"}

\* C10: a session object that is not the registry entry of its identifier has
\* its stream ended and no timer armed.
UnregisteredIsTornDown ==
  \A s \in Insts : ~Registered(s) => sess[s].ending /\ sess[s].timeout # "armed"

\* C11: a session whose deadline has passed and whose timer has run is torn
\* down: its stream is ended.  (Nothing ends it later: once the timer has
\* fired, only the Map and the requests in flight refer to the object.)
ExpiredIsClosed ==
  \A s \in Insts : sess[s].timeout = "fired" => sess[s].ending

\* C12: no request is left waiting for ever by an expiry: no session torn down
\* by expiry has a request awaiting 'drain' on a stream that has nothing left
\* to write out (such a stream emits no further 'drain').
NoRequestStrandedByExpiry ==
  \A s \in Insts :
    ~("expiry" \in hist[s].tdown /\ sess[s].waiters # <<>> /\ sess[s].buf = <<>>)

\* What a step changes of an identifier: its Map entry, its file, its
\* staging directory, a session object of it (createdAt is fixed: the age is
\* not counted), or a new session object for it.
Core(r) == [r EXCEPT !.age = 0]

Touched ==
  {id \in FileIds :
     \/ uploadTracker'[id] # uploadTracker[id]
     \/ files'[NameOf(id)] # files[NameOf(id)]
     \/ (id \in tempDirs') # (id \in tempDirs)
     \/ \E s \in Insts : sess[s].fileId = id /\ Core(sess'[s]) # Core(sess[s])
     \/ Len(sess') > Len(sess) /\ sess'[Len(sess')].fileId = id}

\* the file of a session completed by its chunks 0..N-1 in order holds, with
\* what its stream has still to write out, the concatenation of their bodies
Exact(s) ==
  LET N == sess[s].totalChunks IN
  (/\ "completion" \in hist[s].tdown
   /\ ~hist[s].foreign
   /\ N >= 1
   /\ Indices(s) = [i \in 1..N |-> i - 1])
  => files[sess[s].finalPath] \o Flatten(sess[s].buf) = Flatten(Bodies(s))

StagingRemovedOnExpiry ==
  \A s \in Insts :
    ("expiry" \in hist[s].tdown /\ uploadTracker[sess[s].fileId] = None)
    => sess[s].fileId \notin tempDirs

\* C17: when a write of a session's stream to the file fails, the process
\* lives, the request is answered with an error, and the session is torn
\* down: out of the Map, stream ended, timer not armed.
WriteFailureSurfaced ==
  [][\A s \in Insts :
       FlushFail(s)
       => /\ ~crashed'
          /\ resp' \in {"ServerError", "UploadError"}
          /\ ~Registered(s)'
          /\ sess'[s].ending
          /\ sess'[s].timeout # "armed"]_vars

\* C19: a request whose write leaves the stream saturated is suspended: that
\* step sends no response, adds no index and changes no Map entry, it only
\* registers the request for 'drain'; and requests leave the drain listeners
\* only when the stream has written out everything, to be resumed then.
BackpressureSuspends ==
  [][/\ \A q \in BagToSet(receiving), n \in 0..MaxBody :
          (/\ SumLen(sess[q.upload].buf) + n >= HIGH_WATER_MARK
           /\ ReqEnd(q, n))
          => /\ resp' = "none"
             /\ sess'[q.upload].receivedChunks = sess[q.upload].receivedChunks
             /\ uploadTracker' = uploadTracker
             /\ sess'[q.upload].waiters = Append(sess[q.upload].waiters, q.chunkIndex)
     /\ \A s \in Insts :
          Len(sess'[s].waiters) < Len(sess[s].waiters)
          => /\ sess'[s].buf = <<>>
             /\ sess'[s].receivedChunks = sess[s].receivedChunks
             /\ microq' = [i \in 1..Len(sess[s].waiters) |-> <<s, sess[s].waiters[i]>>]]_vars

\* C19's case: a request of one session is suspended while a request of
\* another session has just been answered.
BackpressureSuspendsSeen ==
  /\ resp = "Received"
  /\ \E s1, s2 \in Insts :
       /\ sess[s1].waiters # <<>> /\ sess[s1].needDrain
       /\ sess[s1].receivedChunks = {}
       /\ sess[s2].fileId # sess[s1].fileId
       /\ sess[s2].waiters = <<>>
       /\ sess[s2].receivedChunks = {0}

\* C20: the file of a session, followed by what its stream has still to
\* write out, is the concatenation of the bodies of the requests that wrote
\* to it, whole and in the order of their 'end' events (no other session
\* object having opened or written the file).
SinkIsConcatenation ==
  \A s \in Insts :
    (sess[s].finalPath \in FileNames /\ ~hist[s].foreign)
    => files[sess[s].finalPath] \o Flatten(sess[s].buf) = Flatten(Bodies(s))

\* C20's case: chunk 1 was written before chunk 0 and the file holds them in
\* that order.
SinkIsConcatenationSeen ==
  \E s \in Insts :
    /\ ~hist[s].foreign
    /\ hist[s].wlog = <<<<1, Body(1, 2)>>, <<0, Body(0, 1)>>>>
    /\ sess[s].buf = <<>>
    /\ files[sess[s].finalPath] = Body(1, 2) \o Body(0, 1)

\* C14: a /combine-chunks request for N chunks whose staging directory lacks
\* a chunk file with an index in [0, N) is answered "missing chunk" naming the
\* smallest such index; no file is created, truncated or written, no chunk
\* file is read or deleted, the staging directory stays, no assembly starts.
MissingChunkRejected ==
  [][\A fileId \in FileIds, totalChunks \in Totals :
       LET absent == {i \in 0..(totalChunks - 1) : chunkStore[fileId][i] = Absent} IN
       (/\ fileId \in tempDirs
        /\ absent # {}
        /\ CombineChunks(NameOf(fileId), fileId, totalChunks))
       => /\ cres' = <<Res("MissingChunk", CHOOSE i \in absent : \A j \in absent : i <= j)>>
          /\ job' = NoJob
          /\ UNCHANGED <<files, chunkStore, tempDirs>>]_vars

\* C14's case: chunk 0 is there, chunk 1 is not, and the error names 1.
MissingChunkRejectedSeen ==
  /\ cres = <<Res("MissingChunk", 1)>>
  /\ job = NoJob
  /\ \A p \in FileNames : files[p] = NoFile
  /\ \E id \in tempDirs : Exists(id, 0) /\ ~Exists(id, 1)

\* the concatenation of the first n chunk files, of the lengths lens
RECURSIVE Assembled(_, _)
Assembled(lens, n) ==
  IF n = 0 THEN <<>> ELSE Assembled(lens, n - 1) \o ChunkFile(n - 1, lens[n - 1])

\* C15: while nothing has failed, the output file followed by what
\* outputStream has still to write out is chunk files 0..currentChunk-1 whole
\* and in that order, then the part of chunk currentChunk piped so far;
\* outputStream is ended only when all N chunks are in it, and the only
\* response is the success, sent after that.
AssemblyInOrder ==
  IF job = NoJob THEN TRUE
  ELSE job.failure = "none"
       => /\ job.currentChunk <= job.totalChunks
          /\ files[job.finalPath] \o Flatten(job.buf)
               = Assembled(job.lens, job.currentChunk)
                   \o (IF job.currentChunk < job.totalChunks
                       THEN ChunkFile(job.currentChunk, job.offset) ELSE <<>>)
          /\ job.ending => job.currentChunk = job.totalChunks
          /\ cres # <<>> => cres = <<Res("Success", 0)>> /\ job.ending

\* C15's case: two chunk files, of 3 bytes and 1 byte, assembled and written
\* out, success reported.
AssemblyInOrderSeen ==
  /\ job # NoJob
  /\ job.state = "resolved"
  /\ job.failure = "none"
  /\ job.totalChunks = 2
  /\ job.lens[0] = 3
  /\ job.lens[1] = 1
  /\ job.buf = <<>>
  /\ files[job.finalPath] = ChunkFile(0, 3) \o ChunkFile(1, 1)
  /\ cres = <<Res("Success", 0)>>

\* C18: when a read of a chunk file or a write of the output has failed, the
\* process lives, the request has exactly one response and it is a failure,
\* and the staging directory is still there.
AssemblyFailsOnce ==
  IF job = NoJob THEN TRUE
  ELSE job.failure # "none"
       => /\ ~crashed
          /\ Len(cres) = 1
          /\ cres[1][1] \in {"FailedCombine", "FailedWrite"}
          /\ job.fileId \in tempDirs

\* C21: a session object is torn down by expiry (its stream ended, its
\* identifier taken out of the registry) only when its own age has reached the
\* upload timeout: the timer of an earlier session object of the same
\* identifier never tears down a later one before that one's own deadline.
ExpiryOnlyAtOwnDeadline ==
  \A s \in Insts :
    "expiry" \in hist[s].tdown => sess[s].age >= UPLOAD_TIMEOUT

\* C22: a session finalized as complete has received exactly the indices
\* 0..totalChunks-1, and every index written to its stream lies in that range.
CompleteIsWholeRange ==
  \A s \in Insts :
    "completion" \in hist[s].tdown
    => /\ sess[s].receivedChunks = 0..(sess[s].totalChunks - 1)
       /\ \A i \in 1..Len(hist[s].wlog) : Indices(s)[i] \in 0..(sess[s].totalChunks - 1)

====
